---- MODULE Spec2Model ----
(***************************************************************************)
(* Vulnerability source updaters of clair: the Amazon Linux (ALAS) updater *)
(* and the Debian security tracker updater, src/ext/vulnsrc/amzn/amzn.go.  *)
(*                                                                         *)
(* Strings the code inspects character by character (timestamps, advisory  *)
(* identifiers, version strings, descriptions) are sequences of one        *)
(* character strings, so that comparison, concatenation and matching are   *)
(* computed.  Strings the code only passes around (flag names, namespace   *)
(* names, URIs) are TLA+ strings.                                          *)
(***************************************************************************)
EXTENDS Integers, Sequences, FiniteSets, TLC

VARIABLES
    updater,    \* the registered updater this process runs: "amzn1", "amzn2", "debian"
    store,      \* the datastore's key/value entry of the updater's flag
    pc,         \* "idle": no call in progress; "returned": Update has returned
    net,        \* what the upstream answered during the last Update call
    flagRead,   \* the flag value Update read at its start
    resp,       \* the UpdateResponse Update returned
    err,        \* the error Update returned ("nil" when none, "panic" when it crashed)
    requests,   \* the URIs Update requested, in order
    lastBody    \* history: the document of the last Debian run the caller committed

vars == <<updater, store, pc, net, flagRead, resp, err, requests, lastBody>>

-----------------------------------------------------------------------------
(* Bounds of the model.                                                    *)

\* the longest advisory list of an updateinfo document
MaxAlas == 2
\* the largest number of (package, advisory, release) triples of a Debian document
MaxTriples == 2

-----------------------------------------------------------------------------
(* Strings as character sequences.                                         *)

\* the byte value of a character (Go compares strings bytewise)
Ord(c) ==
    CASE c = "\t" -> 9  [] c = "\n" -> 10 [] c = " " -> 32 [] c = "#" -> 35
      [] c = "-" -> 45  [] c = "." -> 46  [] c = "0" -> 48 [] c = "1" -> 49
      [] c = "2" -> 50  [] c = "3" -> 51  [] c = "8" -> 56 [] c = ":" -> 58
      [] c = "A" -> 65  [] c = "C" -> 67  [] c = "E" -> 69 [] c = "L" -> 76
      [] c = "M" -> 77  [] c = "P" -> 80  [] c = "S" -> 83 [] c = "T" -> 84
      [] c = "V" -> 86  [] c = "X" -> 88  [] c = "a" -> 97 [] c = "b" -> 98
      [] c = "x" -> 120

RECURSIVE StrLess(_, _)
\* Go's date0 < date1 on strings: lexicographic on bytes, a proper prefix is less
StrLess(a, b) ==
    IF b = <<>> THEN FALSE
    ELSE IF a = <<>> THEN TRUE
    ELSE IF Ord(a[1]) < Ord(b[1]) THEN TRUE
    ELSE IF Ord(a[1]) > Ord(b[1]) THEN FALSE
    ELSE StrLess(Tail(a), Tail(b))

RECURSIVE Str(_)
\* a character sequence as a TLA+ string
Str(s) == IF s = <<>> THEN "" ELSE s[1] \o Str(Tail(s))

\* strings.HasPrefix
HasPrefix(s, p) == Len(s) >= Len(p) /\ SubSeq(s, 1, Len(p)) = p

IsDigit(c) == c \in {"0", "1", "2", "3", "8"}

IsSpace(c) == c \in {" ", "\t", "\n"}

-----------------------------------------------------------------------------
(* Collaborators outside this file: the version format oracle.             *)

\* versionfmt.MaxVersion
MaxVersion == <<"#", "M", "A", "X", "V", "#">>

\* the position of the first ":" of s, 0 when there is none
ColonAt(s) ==
    IF \E i \in 1..Len(s) : s[i] = ":"
    THEN CHOOSE i \in 1..Len(s) : s[i] = ":" /\ \A j \in 1..(i - 1) : s[j] # ":"
    ELSE 0

\* versionfmt.Valid(rpm.ParserName, s): nil (TRUE) or an error (FALSE).  The
\* sentinel is accepted; otherwise the string is not empty, an epoch before the
\* first ":" is a number and the version after it is not empty.
RpmValid(s) ==
    \/ s = MaxVersion
    \/ /\ s # <<>>
       /\ LET c == ColonAt(s)
              rest == SubSeq(s, c + 1, Len(s))
          IN  /\ \A i \in 1..(c - 1) : IsDigit(s[i])
              /\ rest # <<>>
              /\ rest[1] # "-"

\* versionfmt.Valid(dpkg.ParserName, s): the sentinel is accepted; otherwise the
\* string is not empty, an epoch is a number and the upstream version starts
\* with a digit.
DpkgValid(s) ==
    \/ s = MaxVersion
    \/ /\ s # <<>>
       /\ LET c == ColonAt(s)
              rest == SubSeq(s, c + 1, Len(s))
          IN  /\ \A i \in 1..(c - 1) : IsDigit(s[i])
              /\ rest # <<>>
              /\ IsDigit(rest[1])

-----------------------------------------------------------------------------
(* The Amazon Linux updater.                                               *)

amazonLinux1Name == "Amazon Linux 2018.03"
amazonLinux2Name == "Amazon Linux 2"

\* the two updaters init() registers
amazonLinux1Updater ==
    [UpdaterFlag   |-> "amazonLinux1Updater",
     MirrorListURI |-> "http://repo.us-west-2.amazonaws.com/2018.03/updates/x86_64/mirror.list",
     Name          |-> amazonLinux1Name,
     Namespace     |-> "amzn:2018.03",
     LinkPrefix    |-> "https://alas.aws.amazon.com/",
     LinkSuffix    |-> ".html"]

amazonLinux2Updater ==
    [UpdaterFlag   |-> "amazonLinux2Updater",
     MirrorListURI |-> "https://cdn.amazonlinux.com/2/core/latest/x86_64/mirror.list",
     Name          |-> amazonLinux2Name,
     Namespace     |-> "amzn:2",
     LinkPrefix    |-> "https://alas.aws.amazon.com/AL2/",
     LinkSuffix    |-> ".html"]

AmznUpdaterOf(name) == IF name = "amzn1" THEN amazonLinux1Updater ELSE amazonLinux2Updater

\* vulnsrc.UpdateResponse{}
EmptyResponse ==
    [Vulnerabilities |-> <<>>, FlagName |-> "", FlagValue |-> <<>>, Notes |-> <<>>]

compareTimestamp(date0, date1) ==
    IF StrLess(date0, date1) THEN -1
    ELSE IF StrLess(date1, date0) THEN 1
    ELSE 0

\* variant: release and version in the other order
PackageVersionSwapped(p) ==
    IF p.Epoch = <<"0">>
    THEN p.Release \o <<"-">> \o p.Version
    ELSE p.Epoch \o <<":">> \o p.Version \o <<"-">> \o p.Release

\* the version string alasToFeatureVersions builds for a package
PackageVersion(p) ==
    IF p.Epoch = <<"0">>
    THEN p.Version \o <<"-">> \o p.Release
    ELSE p.Epoch \o <<":">> \o p.Version \o <<"-">> \o p.Release

\* the AffectedFeature alasToFeatureVersions builds for a package
AmznFeature(u, p) ==
    LET version == PackageVersion(p)
    IN  [Namespace       |-> [Name |-> u.Namespace, VersionFormat |-> "rpm"],
         FeatureName     |-> p.Name,
         AffectedVersion |-> version,
         FeatureType     |-> "binary",
         FixedInVersion  |-> IF version # MaxVersion THEN version ELSE <<>>]

RECURSIVE FeatureVersionsOf(_, _)
\* the loop of alasToFeatureVersions over a package list
FeatureVersionsOf(u, pkgs) ==
    IF pkgs = <<>> THEN <<>>
    ELSE IF ~RpmValid(PackageVersion(Head(pkgs)))
         THEN FeatureVersionsOf(u, Tail(pkgs))
         ELSE <<AmznFeature(u, Head(pkgs))>> \o FeatureVersionsOf(u, Tail(pkgs))

alasToFeatureVersions(u, alas) == FeatureVersionsOf(u, alas.Packages)

alasToName(u, alas) == alas.Id

ALAS2Prefix == <<"A", "L", "A", "S", "2", "-">>

\* regexp ^ALAS2-(.+)$ finds a match in id ("." matches no newline)
MatchesALAS2(id) ==
    /\ HasPrefix(id, ALAS2Prefix)
    /\ Len(id) > Len(ALAS2Prefix)
    /\ \A i \in (Len(ALAS2Prefix) + 1)..Len(id) : id[i] # "\n"

\* alasToLink indexes element 1 of an empty match: a run-time panic
alasToLinkPanics(u, alas) == u.Name = amazonLinux2Name /\ ~MatchesALAS2(alas.Id)

alasToLink(u, alas) ==
    IF u.Name = amazonLinux1Name
    THEN u.LinkPrefix \o Str(alas.Id) \o u.LinkSuffix
    ELSE IF u.Name = amazonLinux2Name
    THEN u.LinkPrefix \o "ALAS-"
            \o Str(SubSeq(alas.Id, Len(ALAS2Prefix) + 1, Len(alas.Id))) \o u.LinkSuffix
    ELSE ""

alasToSeverity(u, alas) ==
    CASE alas.Severity = "low" -> "Low"
      [] alas.Severity = "medium" -> "Medium"
      [] alas.Severity = "important" -> "High"
      [] alas.Severity = "critical" -> "Critical"
      [] OTHER -> "Unknown"

RECURSIVE TrimLeft(_)
TrimLeft(s) == IF s # <<>> /\ IsSpace(s[1]) THEN TrimLeft(Tail(s)) ELSE s

RECURSIVE TrimRight(_)
TrimRight(s) ==
    IF s # <<>> /\ IsSpace(s[Len(s)]) THEN TrimRight(SubSeq(s, 1, Len(s) - 1)) ELSE s

RECURSIVE CollapseSpace(_)
\* regexp \s+ replaced by one space
CollapseSpace(s) ==
    IF s = <<>> THEN <<>>
    ELSE IF IsSpace(s[1])
         THEN <<" ">> \o CollapseSpace(TrimLeft(s))
         ELSE <<s[1]>> \o CollapseSpace(Tail(s))

alasToDescription(u, alas) == CollapseSpace(TrimRight(TrimLeft(alas.Description)))

\* the VulnerabilityWithAffected alasListToVulnerabilities builds for an advisory
AmznVulnerability(u, alas) ==
    [Name        |-> alasToName(u, alas),
     Link        |-> alasToLink(u, alas),
     Severity    |-> alasToSeverity(u, alas),
     Description |-> alasToDescription(u, alas),
     Affected    |-> alasToFeatureVersions(u, alas)]

RECURSIVE alasListToVulnerabilities(_, _)
alasListToVulnerabilities(u, alasList) ==
    IF alasList = <<>> THEN <<>>
    ELSE IF Len(alasToFeatureVersions(u, Head(alasList))) > 0
         THEN <<AmznVulnerability(u, Head(alasList))>>
                  \o alasListToVulnerabilities(u, Tail(alasList))
         ELSE alasListToVulnerabilities(u, Tail(alasList))

\* alasListToVulnerabilities crashes in alasToLink for some advisory it converts
alasListPanics(u, alasList) ==
    \E i \in 1..Len(alasList) :
        /\ Len(alasToFeatureVersions(u, alasList[i])) > 0
        /\ alasToLinkPanics(u, alasList[i])

\* variant: an advisory as old as the flag value is kept too
IssuedSinceOrAt(alas, flagValue) == compareTimestamp(alas.Updated, flagValue) >= 0

\* Update keeps an advisory when its timestamp is after the flag value
IssuedSince(alas, flagValue) == compareTimestamp(alas.Updated, flagValue) > 0

\* variant: no advisory is filtered out
AlasSinceAll(ALASList, flagValue) == ALASList

\* the advisories issued or updated since the previous update, in order
AlasSince(ALASList, flagValue) ==
    SelectSeq(ALASList, LAMBDA alas : IssuedSince(alas, flagValue))

\* variant: the timestamp of the last advisory kept, not the greatest
LatestTimestampLast(alasList, timestamp) ==
    IF alasList = <<>> THEN timestamp ELSE alasList[Len(alasList)].Updated

RECURSIVE LatestTimestamp(_, _)
\* the timestamp the filter loop of Update ends with, started from timestamp
LatestTimestamp(alasList, timestamp) ==
    IF alasList = <<>> THEN timestamp
    ELSE LatestTimestamp(Tail(alasList),
            IF compareTimestamp(Head(alasList).Updated, timestamp) > 0
            THEN Head(alasList).Updated
            ELSE timestamp)

\* what a stage of the fetch chain does when its request is never made
Unrequested == [result |-> "unrequested"]

\* httputil.GetWithUserAgent returned an error
TransportFailed(r) == r.result = "transport"

\* httputil.Status2xx
Status2xx(r) == r.result # "status"

\* getUpdateInfoURI: [uri, err, requests]
getUpdateInfoURI(u, n) ==
    IF TransportFailed(n.mirror) \/ ~Status2xx(n.mirror)
    THEN [uri |-> "", err |-> "CouldNotDownload", requests |-> <<u.MirrorListURI>>]
    ELSE
    LET \* scanner.Scan() fails on a body without a line; scanner.Text() is then ""
        mirrorURI == IF n.mirror.lines = <<>> THEN "" ELSE n.mirror.lines[1]
        repoMdURI == mirrorURI \o "/repodata/repomd.xml"
        reqs      == <<u.MirrorListURI, repoMdURI>>
        RepoList  == n.repomd.RepoList
        found     == {i \in 1..Len(RepoList) : RepoList[i].Type = "updateinfo"}
        first     == CHOOSE i \in found : \A j \in found : i <= j
        updateInfoURI ==
            IF found = {} THEN "" ELSE mirrorURI \o "/" \o RepoList[first].Href
    IN  IF TransportFailed(n.repomd) \/ ~Status2xx(n.repomd)
        THEN [uri |-> "", err |-> "CouldNotDownload", requests |-> reqs]
        ELSE IF n.repomd.result = "undecodable"
        THEN [uri |-> "", err |-> "CouldNotDownload", requests |-> reqs]
        ELSE IF updateInfoURI = ""
        THEN [uri |-> "", err |-> "CouldNotDownload", requests |-> reqs]
        ELSE [uri |-> updateInfoURI, err |-> "nil", requests |-> reqs]

\* getUpdateInfo: [ALASList, err, requests]
getUpdateInfo(u, n) ==
    LET r == getUpdateInfoURI(u, n)
        reqs == Append(r.requests, r.uri)
    IN  IF r.err # "nil"
        THEN [ALASList |-> <<>>, err |-> r.err, requests |-> r.requests]
        ELSE IF TransportFailed(n.updateinfo) \/ ~Status2xx(n.updateinfo)
        THEN [ALASList |-> <<>>, err |-> "CouldNotDownload", requests |-> reqs]
        ELSE IF n.updateinfo.result = "notgzip"
        THEN [ALASList |-> <<>>, err |-> "CouldNotParse", requests |-> reqs]
        ELSE IF n.updateinfo.result = "undecodable"
        THEN [ALASList |-> <<>>, err |-> "CouldNotParse", requests |-> reqs]
        ELSE [ALASList |-> n.updateinfo.ALASList, err |-> "nil", requests |-> reqs]

\* variant: the flag name is set whether or not a timestamp was seen
AmznResponseAlwaysNamed(u, vulnerabilities, timestamp) ==
    [Vulnerabilities |-> vulnerabilities,
     FlagName  |-> u.UpdaterFlag,
     FlagValue |-> timestamp,
     Notes     |-> <<>>]

\* the response Update builds from the vulnerabilities and the latest timestamp
AmznResponse(u, vulnerabilities, timestamp) ==
    [Vulnerabilities |-> vulnerabilities,
     FlagName  |-> IF timestamp # <<>> THEN u.UpdaterFlag ELSE "",
     FlagValue |-> IF timestamp # <<>> THEN timestamp ELSE <<>>,
     Notes     |-> <<>>]

\* database.FindKeyValueAndRollback followed by "if !found": the flag value read
FlagValueRead(st) == IF st.found THEN st.value ELSE <<>>

\* updater.Update of the Amazon updater u on datastore entry st, the upstream
\* answering n: [resp, err, requests, flagRead]
AmznUpdateResult(u, st, n) ==
    LET flagValue == FlagValueRead(st)
        info      == getUpdateInfo(u, n)
        alasList  == AlasSince(info.ALASList, flagValue)
        timestamp == LatestTimestamp(alasList, <<>>)
    IN  IF n.db = "error"
        THEN [resp |-> EmptyResponse, err |-> "DatastoreError",
              requests |-> <<>>, flagRead |-> <<>>]
        ELSE IF info.err # "nil"
        THEN [resp |-> EmptyResponse, err |-> info.err,
              requests |-> info.requests, flagRead |-> flagValue]
        ELSE IF alasListPanics(u, alasList)
        THEN [resp |-> EmptyResponse, err |-> "panic",
              requests |-> info.requests, flagRead |-> flagValue]
        ELSE [resp |-> AmznResponse(u, alasListToVulnerabilities(u, alasList), timestamp),
              err |-> "nil", requests |-> info.requests, flagRead |-> flagValue]

-----------------------------------------------------------------------------
(* The upstream documents the Amazon updater is run on.                    *)

\* update timestamps: empty, a string, a proper extension of it, a greater one
Dates == {<<>>, <<"1">>, <<"1", "2">>, <<"2">>}

PkgEpoch0 ==
    [Name |-> "foo", Epoch |-> <<"0">>, Version |-> <<"1", ".", "2">>, Release |-> <<"3">>]

PkgEpoch2 ==
    [Name |-> "bar", Epoch |-> <<"2">>, Version |-> <<"1", ".", "2">>, Release |-> <<"3">>]

\* a package whose version string the RPM format rejects
PkgInvalid ==
    [Name |-> "baz", Epoch |-> <<"x">>, Version |-> <<"1", ".", "2">>, Release |-> <<"3">>]

\* the package lists of the advisories, each with the severity its advisory carries
PackageLists ==
    { [Packages |-> <<>>,                      Severity |-> "low"],
      [Packages |-> <<PkgEpoch0>>,             Severity |-> "important"],
      [Packages |-> <<PkgInvalid>>,            Severity |-> "critical"],
      [Packages |-> <<PkgInvalid, PkgEpoch2>>, Severity |-> "moderate"] }

DescriptionRaw == <<" ", "a", " ", "\n", "b", "\t">>

DigitOf == <<"1", "2", "3">>

\* the identifiers an advisory at position i of the feed of an updater may carry
IdPrefixes(name) ==
    IF name = "amzn1" THEN {<<"A", "L", "A", "S", "-">>}
    ELSE {ALAS2Prefix, <<"A", "L", "A", "S", "-">>}

AlasBodies(name) == IdPrefixes(name) \X Dates \X PackageLists

\* the advisory at position i built from a body; identifiers differ by position
MkAlas(i, b) ==
    [Id          |-> b[1] \o <<DigitOf[i]>>,
     Updated     |-> b[2],
     Severity    |-> b[3].Severity,
     Description |-> DescriptionRaw,
     Packages    |-> b[3].Packages]

\* the advisory lists of k advisories
ALASLists(name, k) ==
    { [i \in 1..k |-> MkAlas(i, bs[i])] : bs \in [1..k -> AlasBodies(name)] }

MirrorLists == {<<>>, <<"http://repo.example/2018.03">>}

RepoLists ==
    { <<[Type |-> "primary", Href |-> "repodata/primary.xml.gz"]>>,
      <<[Type |-> "primary", Href |-> "repodata/primary.xml.gz"],
        [Type |-> "updateinfo", Href |-> "repodata/updateinfo.xml.gz"]>> }

MirrorAnswers ==
    {[result |-> "transport"], [result |-> "status"]}
        \cup {[result |-> "ok", lines |-> l] : l \in MirrorLists}

RepoMdAnswers ==
    {[result |-> "transport", RepoList |-> <<>>], [result |-> "status", RepoList |-> <<>>],
     [result |-> "undecodable", RepoList |-> <<>>]}
        \cup {[result |-> "ok", RepoList |-> l] : l \in RepoLists}

\* the updateinfo.xml.gz answers with an advisory list of k advisories, and
\* with them, for k = 0, the answers with none
UpdateInfoAnswers(name, k) ==
    {[result |-> "ok", ALASList |-> l] : l \in ALASLists(name, k)}
        \cup IF k = 0
             THEN {[result |-> "transport"], [result |-> "status"], [result |-> "notgzip"],
                   [result |-> "undecodable"]}
             ELSE {}

\* the repomd.xml answers after mirror list answer m: a mirror list without a
\* line makes the request URI "/repodata/repomd.xml", which has no scheme and
\* no host, and the transport fails on it
RepoMdAnswersAfter(m) ==
    IF m.lines = <<>> THEN {a \in RepoMdAnswers : a.result = "transport"} ELSE RepoMdAnswers

\* The answers of the stages of one Update call.  A stage that is never
\* requested answers nothing: the mirror list after a datastore error, repomd.xml
\* after a failed mirror list, updateinfo.xml.gz when getUpdateInfoURI failed.
DbAnswers == {"ok", "error"}

MirrorStage(db) == IF db = "ok" THEN MirrorAnswers ELSE {Unrequested}

RepoMdStage(m) == IF m.result = "ok" THEN RepoMdAnswersAfter(m) ELSE {Unrequested}

UpdateInfoStage(name, m, r, k) ==
    IF /\ r # Unrequested
       /\ getUpdateInfoURI(AmznUpdaterOf(name), [mirror |-> m, repomd |-> r]).err = "nil"
    THEN UpdateInfoAnswers(name, k)
    ELSE IF k = 0 THEN {Unrequested} ELSE {}

-----------------------------------------------------------------------------
(* The Debian updater.                                                     *)

updaterFlag == "debianUpdater"

url == "https://security-tracker.debian.org/tracker/data/json"

cveURLPrefix == "https://security-tracker.debian.org/tracker"

\* database.DebianReleasesMapping: release name to release number
DebianReleasesMapping == [r \in {"wheezy", "jessie"} |-> IF r = "wheezy" THEN "7" ELSE "8"]

\* the canonical severity scale, least first
SeverityOrder == <<"Unknown", "Negligible", "Low", "Medium", "High", "Critical">>

SeverityRank(sev) == CHOOSE i \in 1..Len(SeverityOrder) : SeverityOrder[i] = sev

\* database.Severity.Compare
SeverityCompare(a, b) == SeverityRank(a) - SeverityRank(b)

SeverityFromUrgency(urgency) ==
    CASE urgency = "not yet assigned" -> "Unknown"
      [] urgency \in {"end-of-life", "unimportant"} -> "Negligible"
      [] urgency \in {"low", "low*", "low**"} -> "Low"
      [] urgency \in {"medium", "medium*", "medium**"} -> "Medium"
      [] urgency \in {"high", "high*", "high**"} -> "High"
      [] OTHER -> "Unknown"

CVEPrefix == <<"C", "V", "E", "-">>

\* a triple of the document is <<package name, advisory name, release name>>
PkgOf(k) == k[1]
VulnOf(k) == k[2]
ReleaseOf(k) == k[3]

\* variant: a fixed version "0" is a version like any other
DebianVersionKeepZero(releaseNode) ==
    IF releaseNode.Status = "open" THEN MaxVersion
    ELSE IF releaseNode.Status = "resolved" THEN releaseNode.FixedVersion
    ELSE <<>>

\* the version parseDebianJSON determines for a release node, <<>> when none
DebianVersion(releaseNode) ==
    IF releaseNode.Status = "open" THEN MaxVersion
    ELSE IF releaseNode.Status = "resolved"
    THEN IF releaseNode.FixedVersion # <<"0">> THEN releaseNode.FixedVersion ELSE <<>>
    ELSE <<>>

\* variant: FixedInVersion is the version, the sentinel too
DebianFeatureAlwaysFixed(k, version) ==
    [FeatureType     |-> "source",
     FeatureName     |-> PkgOf(k),
     AffectedVersion |-> version,
     FixedInVersion  |-> version,
     Namespace       |-> [Name |-> "debian:" \o DebianReleasesMapping[ReleaseOf(k)],
                          VersionFormat |-> "dpkg"]]

\* the AffectedFeature parseDebianJSON builds for a triple
DebianFeature(k, version) ==
    [FeatureType     |-> "source",
     FeatureName     |-> PkgOf(k),
     AffectedVersion |-> version,
     FixedInVersion  |-> IF version # MaxVersion THEN version ELSE <<>>,
     Namespace       |-> [Name |-> "debian:" \o DebianReleasesMapping[ReleaseOf(k)],
                          VersionFormat |-> "dpkg"]]

\* the vulnerability parseDebianJSON creates when the map holds none of the name
NewDebianVulnerability(vulnName, description) ==
    [Name        |-> vulnName,
     Link        |-> cveURLPrefix \o "/" \o Str(vulnName),
     Severity    |-> "Unknown",
     Description |-> description,
     Affected    |-> <<>>]

\* the severity update of parseDebianJSON: the highest urgency is the one set
WithSeverity(vulnerability, severity) ==
    IF SeverityCompare(severity, vulnerability.Severity) > 0
    THEN [vulnerability EXCEPT !.Severity = severity]
    ELSE vulnerability

\* one iteration of the innermost loop of parseDebianJSON on triple k of data;
\* acc is [m: mvulnerabilities, unknown: unknownReleases].  The map holds
\* pointers: the severity of a vulnerability already in the map is updated in
\* place before the version is looked at, a new vulnerability enters the map
\* only with its feature.
ParseTriple(acc, data, k) ==
    LET releaseNode == data.triples[k]
        vulnName    == VulnOf(k)
        exists      == vulnName \in DOMAIN acc.m
        vulnerability ==
            WithSeverity(IF exists THEN acc.m[vulnName]
                         ELSE NewDebianVulnerability(vulnName, data.description),
                         SeverityFromUrgency(releaseNode.Urgency))
        version     == DebianVersion(releaseNode)
        invalid     == releaseNode.Status = "resolved" /\ ~DpkgValid(releaseNode.FixedVersion)
        stored      == [vulnerability EXCEPT
                            !.Affected = Append(@, DebianFeature(k, version))]
        Put(v)      == [n \in DOMAIN acc.m \cup {vulnName} |->
                            IF n = vulnName THEN v ELSE acc.m[n]]
    IN  IF ReleaseOf(k) \notin DOMAIN DebianReleasesMapping
        THEN [acc EXCEPT !.unknown = @ \cup {ReleaseOf(k)}]
        ELSE IF ~HasPrefix(vulnName, CVEPrefix) \/ releaseNode.Status = "undetermined"
        THEN acc
        ELSE IF invalid \/ version = <<>>
        THEN IF exists THEN [acc EXCEPT !.m = Put(vulnerability)] ELSE acc
        ELSE [acc EXCEPT !.m = Put(stored)]

RECURSIVE ParseTriples(_, _, _)
\* the loops of parseDebianJSON over the triples in the order the maps yield them
ParseTriples(acc, data, order) ==
    IF order = <<>> THEN acc
    ELSE ParseTriples(ParseTriple(acc, data, Head(order)), data, Tail(order))

\* parseDebianJSON, the maps iterated in order and the result map in flat:
\* [vulnerabilities, unknownReleases]
parseDebianJSON(data, order, flat) ==
    LET acc == ParseTriples([m |-> <<>>, unknown |-> {}], data, order)
    IN  [vulnerabilities |-> [i \in 1..Len(flat) |-> acc.m[flat[i]]],
         unknownReleases |-> acc.unknown]

\* the names of the vulnerabilities parseDebianJSON ends with
ParsedNames(data, order) ==
    DOMAIN ParseTriples([m |-> <<>>, unknown |-> {}], data, order).m

\* hex(sha256(bytes)) of a document: a non-empty string, distinct for distinct bytes
Hash(body) == <<"sha256", body>>

\* variant: the hash is compared with nothing, no update is ever skipped
SeenBeforeNever(latestKnownHash, hash) == FALSE

\* buildResponse skips the update when the hash has been seen before
SeenBefore(latestKnownHash, hash) == latestKnownHash = hash

UnknownReleaseNote(k) ==
    "Debian " \o k \o " is not mapped to any version number (eg. Jessie->8). Please update me."

\* buildResponse: [resp, err]; iter is the order the runtime iterates the maps in
buildResponse(body, latestKnownHash, iter) ==
    LET hash   == Hash(body)
        parsed == parseDebianJSON(body.data, iter.order, iter.flat)
    IN  IF body.json = "invalid"
        THEN [resp |-> EmptyResponse, err |-> "CouldNotParse"]
        ELSE IF SeenBefore(latestKnownHash, hash)
        THEN [resp |-> [EmptyResponse EXCEPT !.FlagName = updaterFlag, !.FlagValue = hash],
              err |-> "nil"]
        ELSE [resp |-> [Vulnerabilities |-> parsed.vulnerabilities,
                        FlagName  |-> updaterFlag,
                        FlagValue |-> hash,
                        Notes     |-> [i \in 1..Len(iter.notes) |->
                                          UnknownReleaseNote(iter.notes[i])]],
              err |-> "nil"]

\* updater.Update of the Debian updater: [resp, err, requests, flagRead]
DebianUpdateResult(st, n, iter) ==
    LET latestHash == FlagValueRead(st)
        built      == buildResponse(n.json.body, latestHash, iter)
    IN  IF n.db = "error"
        THEN [resp |-> EmptyResponse, err |-> "DatastoreError",
              requests |-> <<>>, flagRead |-> <<>>]
        ELSE IF TransportFailed(n.json) \/ ~Status2xx(n.json)
        THEN [resp |-> EmptyResponse, err |-> "CouldNotDownload",
              requests |-> <<url>>, flagRead |-> latestHash]
        ELSE [resp |-> built.resp, err |-> built.err,
              requests |-> <<url>>, flagRead |-> latestHash]

-----------------------------------------------------------------------------
(* The upstream documents the Debian updater is run on.                    *)

CVE1 == <<"C", "V", "E", "-", "1">>
CVE2 == <<"C", "V", "E", "-", "2">>
TEMP1 == <<"T", "E", "M", "P", "-", "1">>

\* the release nodes of the documents
NodeOpenLow == [FixedVersion |-> <<>>, Status |-> "open", Urgency |-> "low"]
NodeResolvedMedium ==
    [FixedVersion |-> <<"1", ".", "0">>, Status |-> "resolved", Urgency |-> "medium**"]
NodeNotAffectedHigh ==
    [FixedVersion |-> <<"0">>, Status |-> "resolved", Urgency |-> "high"]
NodeInvalidHigh ==
    [FixedVersion |-> <<"x">>, Status |-> "resolved", Urgency |-> "high*"]
NodeUndeterminedHigh ==
    [FixedVersion |-> <<>>, Status |-> "undetermined", Urgency |-> "high"]
NodePendingUnimportant ==
    [FixedVersion |-> <<>>, Status |-> "pending", Urgency |-> "unimportant"]

AllNodes ==
    {NodeOpenLow, NodeResolvedMedium, NodeNotAffectedHigh, NodeInvalidHigh,
     NodeUndeterminedHigh, NodePendingUnimportant}

\* the triples a document may hold, each with the release nodes it may carry
TripleNodes ==
    { <<<<"openssl", CVE1, "jessie">>, AllNodes>>,
      <<<<"openssl", CVE1, "wheezy">>, {NodeOpenLow, NodeNotAffectedHigh, NodeInvalidHigh}>>,
      <<<<"nginx", CVE2, "jessie">>, {NodeOpenLow, NodeResolvedMedium}>>,
      <<<<"openssl", TEMP1, "jessie">>, {NodeOpenLow}>>,
      <<<<"nginx", CVE1, "potato">>, {NodeOpenLow}>> }

Triples == {t[1] : t \in TripleNodes}

NodesFor(k) == (CHOOSE t \in TripleNodes : t[1] = k)[2]

\* the decoded documents: up to MaxTriples triples
DebianData ==
    UNION { { [triples |-> d, description |-> <<"a">>]
                : d \in {f \in [S -> AllNodes] : \A k \in S : f[k] \in NodesFor(k)} }
            : S \in {T \in SUBSET Triples : Cardinality(T) <= MaxTriples} }

\* the bodies of a 2xx answer: a JSON document, or bytes that are no JSON
DebianBodies ==
    {[json |-> "ok", data |-> d] : d \in DebianData}
        \cup {[json |-> "invalid", data |-> [triples |-> <<>>, description |-> <<>>]]}

DebianNets ==
    {[db |-> "error", json |-> Unrequested],
     [db |-> "ok", json |-> [result |-> "transport"]],
     [db |-> "ok", json |-> [result |-> "status"]]}
        \cup {[db |-> "ok", json |-> [result |-> "ok", body |-> b]] : b \in DebianBodies}

\* the sequences that enumerate set S once each
Orderings(S) ==
    {p \in [1..Cardinality(S) -> S] : \A i, j \in 1..Cardinality(S) : p[i] = p[j] => i = j}

\* an order nested range loops can yield: the triples of a package are
\* contiguous, and within them those of an advisory
NestedOrder(p) ==
    \A i, j, k \in 1..Len(p) :
        i < j /\ j < k =>
            /\ PkgOf(p[i]) = PkgOf(p[k]) => PkgOf(p[j]) = PkgOf(p[i])
            /\ (PkgOf(p[i]) = PkgOf(p[k]) /\ VulnOf(p[i]) = VulnOf(p[k]))
                   => VulnOf(p[j]) = VulnOf(p[i])

\* the iteration orders of one run on a request's answer: of the document's
\* maps, of the result map and of the unknown releases
Iterations(n) ==
    IF n.db = "ok" /\ n.json.result = "ok" /\ n.json.body.json = "ok"
    THEN LET data == n.json.body.data
         IN  UNION { { [order |-> o, flat |-> f, notes |-> u]
                         : f \in Orderings(ParsedNames(data, o)),
                           u \in Orderings(
                                   ParseTriples([m |-> <<>>, unknown |-> {}], data, o).unknown) }
                     : o \in {p \in Orderings(DOMAIN data.triples) : NestedOrder(p)} }
    ELSE {[order |-> <<>>, flat |-> <<>>, notes |-> <<>>]}

-----------------------------------------------------------------------------
(* The state machine.                                                      *)

NoStore == [found |-> FALSE, value |-> <<>>]

NoBody == [json |-> "none"]

Init ==
    /\ updater \in {"amzn1", "amzn2", "debian"}
    /\ store = NoStore
    /\ pc = "idle"
    /\ net = Unrequested
    /\ flagRead = <<>>
    /\ resp = EmptyResponse
    /\ err = "nil"
    /\ requests = <<>>
    /\ lastBody = NoBody

\* one call of Update of an Amazon updater
AmznUpdate ==
    /\ pc = "idle"
    /\ updater \in {"amzn1", "amzn2"}
    /\ \E db \in DbAnswers : \E m \in MirrorStage(db) : \E r \in RepoMdStage(m) :
       \E k \in 0..MaxAlas : \E i \in UpdateInfoStage(updater, m, r, k) :
          LET n == [db |-> db, mirror |-> m, repomd |-> r, updateinfo |-> i]
              res == AmznUpdateResult(AmznUpdaterOf(updater), store, n)
          IN  /\ net' = n
              /\ resp' = res.resp
              /\ err' = res.err
              /\ requests' = res.requests
              /\ flagRead' = res.flagRead
    /\ pc' = "returned"
    /\ UNCHANGED <<updater, store, lastBody>>

\* one call of Update of the Debian updater
DebianUpdate ==
    /\ pc = "idle"
    /\ updater = "debian"
    /\ \E n \in DebianNets : \E iter \in Iterations(n) :
          LET r == DebianUpdateResult(store, n, iter)
          IN  /\ net' = n
              /\ resp' = r.resp
              /\ err' = r.err
              /\ requests' = r.requests
              /\ flagRead' = r.flagRead
    /\ pc' = "returned"
    /\ UNCHANGED <<updater, store, lastBody>>

\* the caller of a successful Update stores the flag the response carries
Commit ==
    /\ pc = "returned"
    /\ err = "nil"
    /\ store' = IF resp.FlagName # ""
                THEN [found |-> TRUE, value |-> resp.FlagValue]
                ELSE store
    /\ pc' = "idle"
    /\ net' = Unrequested
    /\ flagRead' = <<>>
    /\ resp' = EmptyResponse
    /\ err' = "nil"
    /\ requests' = <<>>
    /\ lastBody' = IF updater = "debian" THEN net.json.body ELSE lastBody
    /\ UNCHANGED updater

\* the caller of a failed Update stores nothing
Abort ==
    /\ pc = "returned"
    /\ err # "nil"
    /\ pc' = "idle"
    /\ net' = Unrequested
    /\ flagRead' = <<>>
    /\ resp' = EmptyResponse
    /\ err' = "nil"
    /\ requests' = <<>>
    /\ UNCHANGED <<updater, store, lastBody>>

Next == AmznUpdate \/ DebianUpdate \/ Commit \/ Abort

Spec == Init /\ [][Next]_vars

-----------------------------------------------------------------------------
(* Notions the properties are stated in.                                   *)

\* the stored watermark, a missing one counting as the empty string
Watermark(st) == IF st.found THEN st.value ELSE <<>>

\* a is lexicographically less than or equal to b
LexLeq(a, b) == a = b \/ StrLess(a, b)

\* an Amazon Update call has returned a response
AmznReturned == pc = "returned" /\ updater \in {"amzn1", "amzn2"} /\ err = "nil"

\* the advisory list of the feed the returned Amazon call decoded
Feed == net.updateinfo.ALASList

\* the advisory is in the emitted batch
Emitted(alas) ==
    \E i \in 1..Len(resp.Vulnerabilities) : resp.Vulnerabilities[i].Name = alas.Id

\* the version string of an affected package as the specification gives it
CanonicalVersion(p) ==
    IF p.Epoch = <<"0">>
    THEN p.Version \o <<"-">> \o p.Release
    ELSE p.Epoch \o <<":">> \o p.Version \o <<"-">> \o p.Release

\* the advisory has a package whose version string the RPM format accepts
HasValidPackage(alas) ==
    \E i \in 1..Len(alas.Packages) : RpmValid(CanonicalVersion(alas.Packages[i]))

\* the positions of the feed whose timestamp strictly exceeds the stored watermark
Passing == {i \in 1..Len(Feed) : StrLess(Watermark(store), Feed[i].Updated)}

\* d is the greatest timestamp of the advisories at positions S
IsLatestOf(d, S) ==
    /\ \E i \in S : Feed[i].Updated = d
    /\ \A i \in S : LexLeq(Feed[i].Updated, d)

\* the response carries no watermark
NoFlag == resp.FlagName = "" /\ resp.FlagValue = <<>>

\* a Debian Update call has returned a response built from a decoded document
DebianReturned ==
    /\ pc = "returned" /\ updater = "debian" /\ err = "nil"

\* the decoded document of the returned Debian call
Data == net.json.body.data

-----------------------------------------------------------------------------
(* Properties.                                                             *)

\* C1: in the response of an Amazon Update, no advisory of the feed whose
\* update timestamp is lexicographically less than or equal to the stored
\* watermark is in the emitted batch; with no stored watermark every advisory
\* with a non-empty timestamp passes the filter (and is emitted when it has a
\* valid package).
C1_OldAdvisoriesExcluded ==
    AmznReturned =>
        \A i \in 1..Len(Feed) :
            /\ LexLeq(Feed[i].Updated, Watermark(store)) => ~Emitted(Feed[i])
            /\ (~store.found /\ Feed[i].Updated # <<>> /\ HasValidPackage(Feed[i]))
                  => Emitted(Feed[i])

\* C1 witness: against a stored non-empty watermark, a feed with an advisory
\* that has a valid package but is not newer, and one that is emitted.
C1_Witness ==
    /\ AmznReturned /\ store.found /\ store.value # <<>>
    /\ \E i, j \in 1..Len(Feed) :
          /\ LexLeq(Feed[i].Updated, store.value) /\ Feed[i].Updated # <<>>
          /\ HasValidPackage(Feed[i])
          /\ Emitted(Feed[j])

\* C2 as stated: the new watermark is the greatest timestamp of the advisories
\* that pass the filter and are emitted, and is absent when there is none.
C2_Original ==
    AmznReturned =>
        LET accepted == {i \in Passing : Emitted(Feed[i])}
        IN  IF accepted = {} THEN NoFlag
            ELSE /\ resp.FlagName = AmznUpdaterOf(updater).UpdaterFlag
                 /\ IsLatestOf(resp.FlagValue, accepted)

\* C2 amended: the new watermark is the greatest update timestamp of the
\* advisories whose timestamp strictly exceeds the stored watermark, whether or
\* not they yield a feature; FlagName and FlagValue are empty when there is none.
C2_WatermarkIsLatestPassing ==
    AmznReturned =>
        IF Passing = {} THEN NoFlag
        ELSE /\ resp.FlagName = AmznUpdaterOf(updater).UpdaterFlag
             /\ IsLatestOf(resp.FlagValue, Passing)

\* C2 witness: the watermark is the timestamp of an advisory that passed the
\* filter and was not emitted, later than that of an emitted one.
C2_Witness ==
    /\ AmznReturned
    /\ \E i, j \in Passing :
          /\ ~Emitted(Feed[i]) /\ Emitted(Feed[j])
          /\ resp.FlagValue = Feed[i].Updated
          /\ StrLess(Feed[j].Updated, Feed[i].Updated)

\* C3: across the runs of an Amazon updater whose caller stores the flag of
\* every response that carries one, the stored watermark never decreases and
\* every value written is strictly greater than the value read at the start
\* of the run.
C3_WatermarkMonotone ==
    [][(updater \in {"amzn1", "amzn2"} /\ pc = "returned" /\ pc' = "idle") =>
          /\ ~StrLess(Watermark(store'), Watermark(store))
          /\ (err = "nil" /\ resp.FlagName # "") =>
                /\ store'.found /\ store'.value = resp.FlagValue
                /\ StrLess(flagRead, store'.value)
                /\ StrLess(Watermark(store), store'.value)]_vars

\* C3 witness: a run that read a stored non-empty watermark returns a response
\* that carries a new one.
C3_Witness ==
    /\ AmznReturned /\ store.found /\ store.value # <<>>
    /\ resp.FlagName # ""

\* C4: a Debian run on the bytes of the last committed run returns an empty
\* batch and no error, and leaves the stored watermark as it was.
C4_DebianDedup ==
    (/\ pc = "returned" /\ updater = "debian"
     /\ net.db = "ok" /\ net.json.result = "ok"
     /\ net.json.body = lastBody)
        => /\ err = "nil"
           /\ resp.Vulnerabilities = <<>>
           /\ store.found
           /\ resp.FlagName # "" => (resp.FlagName = updaterFlag /\ resp.FlagValue = store.value)

\* C4 witness: the second run on a document that holds an open CVE of a
\* known release.
C4_Witness ==
    /\ pc = "returned" /\ updater = "debian"
    /\ net.db = "ok" /\ net.json.result = "ok"
    /\ net.json.body = lastBody
    /\ <<"openssl", CVE1, "jessie">> \in DOMAIN Data.triples
    /\ Data.triples[<<"openssl", CVE1, "jessie">>] = NodeOpenLow

\* an Amazon call returned and no advisory passed the timestamp filter
AmznNoProgress == AmznReturned /\ Passing = {}

\* a Debian call returned and the document hash equals the stored watermark
DebianNoProgress == DebianReturned /\ store.found /\ store.value = Hash(net.json.body)

\* C5 as stated: whenever an Update call makes no forward progress, FlagName
\* and FlagValue of the response are empty.
C5_Original == (AmznNoProgress \/ DebianNoProgress) => NoFlag

\* C5 amended: an Amazon call in which no advisory passes the timestamp filter
\* returns empty FlagName and FlagValue; a Debian call whose document hash equals
\* the stored watermark returns an empty batch with FlagName "debianUpdater" and
\* FlagValue equal to the stored watermark.
C5_NoProgressFlag ==
    /\ AmznNoProgress => NoFlag
    /\ DebianNoProgress =>
          /\ resp.FlagName = updaterFlag
          /\ resp.FlagValue = store.value
          /\ resp.Vulnerabilities = <<>>

\* C5 witness: an Amazon call that read a stored watermark and found advisories,
\* none of them newer.
C5_Witness ==
    /\ AmznNoProgress /\ store.found /\ Len(Feed) > 0
    /\ \E i \in 1..Len(Feed) : HasValidPackage(Feed[i]) /\ Feed[i].Updated = store.value

\* the vulnerabilities of the returned response
Vulns == resp.Vulnerabilities

\* the positions of the emitted vulnerabilities named name
Named(name) == {j \in 1..Len(Vulns) : Vulns[j].Name = name}

\* the triples of the decoded Debian document
DocTriples == DOMAIN Data.triples

\* the release of the triple is known and its advisory is a CVE
KnownCVE(k) ==
    ReleaseOf(k) \in DOMAIN DebianReleasesMapping /\ HasPrefix(VulnOf(k), CVEPrefix)

\* the triple contributes an AffectedFeature: it is open, or resolved in a
\* valid fixed version other than "0"
Contributes(k) ==
    LET node == Data.triples[k]
    IN  /\ KnownCVE(k)
        /\ \/ node.Status = "open"
           \/ /\ node.Status = "resolved"
              /\ DpkgValid(node.FixedVersion)
              /\ node.FixedVersion # <<"0">>

\* the severity derived from the urgency of the triple
TripleSeverity(k) == SeverityFromUrgency(Data.triples[k].Urgency)

\* the feature of vulnerability v that stems from triple k, if there is one
FeatureOf(v, k) ==
    {x \in 1..Len(v.Affected) :
        /\ v.Affected[x].FeatureName = PkgOf(k)
        /\ v.Affected[x].Namespace.Name = "debian:" \o DebianReleasesMapping[ReleaseOf(k)]}

\* C6 as stated: the severity of every emitted Debian vulnerability is the
\* greatest of the severities derived from the urgency of the triples that
\* contributed an AffectedFeature to it, whatever the iteration order.
C6_SeverityIsMaxOfContributors ==
    DebianReturned =>
        \A j \in 1..Len(Vulns) :
            LET ks == {k \in DocTriples : VulnOf(k) = Vulns[j].Name /\ Contributes(k)}
            IN  /\ \E k \in ks : TripleSeverity(k) = Vulns[j].Severity
                /\ \A k \in ks : SeverityCompare(TripleSeverity(k), Vulns[j].Severity) <= 0

\* C7: in every AffectedFeature of a response, FixedInVersion is empty when
\* AffectedVersion is MaxVersion and is AffectedVersion otherwise; every open
\* Debian triple of a known release and a CVE yields a feature with MaxVersion
\* and no FixedInVersion; every Amazon feature has FixedInVersion equal to
\* AffectedVersion.
C7_FixedInVersion ==
    (pc = "returned" /\ err = "nil") =>
        /\ \A j \in 1..Len(Vulns) : \A x \in 1..Len(Vulns[j].Affected) :
              LET f == Vulns[j].Affected[x]
              IN  /\ f.AffectedVersion = MaxVersion => f.FixedInVersion = <<>>
                  /\ f.AffectedVersion # MaxVersion => f.FixedInVersion = f.AffectedVersion
                  /\ updater \in {"amzn1", "amzn2"} => f.FixedInVersion = f.AffectedVersion
        /\ (updater = "debian" /\ ~DebianNoProgress) =>
              \A k \in DocTriples :
                  (KnownCVE(k) /\ Data.triples[k].Status = "open") =>
                      \E j \in Named(VulnOf(k)) : \E x \in FeatureOf(Vulns[j], k) :
                          /\ Vulns[j].Affected[x].AffectedVersion = MaxVersion
                          /\ Vulns[j].Affected[x].FixedInVersion = <<>>

\* C7 witness: a Debian batch with an open feature and a resolved one.
C7_Witness ==
    /\ DebianReturned
    /\ \E j \in 1..Len(Vulns) : \E x, y \in 1..Len(Vulns[j].Affected) :
          /\ Vulns[j].Affected[x].AffectedVersion = MaxVersion
          /\ Vulns[j].Affected[y].FixedInVersion = <<"1", ".", "0">>

\* the version strings of the packages of an advisory that the RPM format accepts
ExpectedVersions(alas) ==
    SelectSeq([x \in 1..Len(alas.Packages) |-> CanonicalVersion(alas.Packages[x])], RpmValid)

\* the names of the packages of an advisory whose version string is accepted
ExpectedNames(alas) ==
    LET valid == SelectSeq(alas.Packages, LAMBDA p : RpmValid(CanonicalVersion(p)))
    IN  [x \in 1..Len(valid) |-> valid[x].Name]

\* C8: the version string of an affected package is version-release when the
\* epoch is "0" and epoch:version-release otherwise; the features of an emitted
\* advisory are those of its packages whose string the RPM format accepts, with
\* that string as AffectedVersion, and a rejected package does not fail the run.
C8_VersionCanonicalization ==
    /\ AmznReturned =>
          \A i \in Passing :
              IF ExpectedVersions(Feed[i]) = <<>> THEN Named(Feed[i].Id) = {}
              ELSE \E j \in Named(Feed[i].Id) :
                      /\ Named(Feed[i].Id) = {j}
                      /\ [x \in 1..Len(Vulns[j].Affected) |->
                             Vulns[j].Affected[x].AffectedVersion] = ExpectedVersions(Feed[i])
                      /\ [x \in 1..Len(Vulns[j].Affected) |->
                             Vulns[j].Affected[x].FeatureName] = ExpectedNames(Feed[i])
    /\ (/\ pc = "returned" /\ updater \in {"amzn1", "amzn2"}
        /\ net.db = "ok" /\ net.updateinfo.result = "ok"
        /\ \/ updater = "amzn1"
           \/ \A i \in 1..Len(Feed) : MatchesALAS2(Feed[i].Id))
          => err = "nil"

\* C8 witness: a batch with the feature "1.2-3" of a package of epoch "0" and
\* the feature "2:1.2-3" of a package of epoch "2" whose advisory also lists a
\* package with a rejected version.
C8_Witness ==
    /\ AmznReturned
    /\ \E j1, j2 \in 1..Len(Vulns) :
          /\ Len(Vulns[j1].Affected) = 1
          /\ Vulns[j1].Affected[1].AffectedVersion = <<"1", ".", "2", "-", "3">>
          /\ Len(Vulns[j2].Affected) = 1
          /\ Vulns[j2].Affected[1].AffectedVersion = <<"2", ":", "1", ".", "2", "-", "3">>
    /\ \E i \in Passing : Len(Feed[i].Packages) = 2 /\ Emitted(Feed[i])

\* C9: a Debian triple that is resolved in fixed version "0" yields no
\* AffectedFeature, and every emitted Debian vulnerability has at least one
\* AffectedFeature.
C9_NotAffectedSkipped ==
    DebianReturned =>
        /\ \A j \in 1..Len(Vulns) :
              /\ Len(Vulns[j].Affected) >= 1
              /\ \A x \in 1..Len(Vulns[j].Affected) :
                    Vulns[j].Affected[x].AffectedVersion # <<"0">>
        /\ \A k \in DocTriples :
              (/\ KnownCVE(k)
               /\ Data.triples[k].Status = "resolved"
               /\ Data.triples[k].FixedVersion = <<"0">>)
                  => \A j \in Named(VulnOf(k)) : FeatureOf(Vulns[j], k) = {}

\* C9 witness: a document with a triple resolved in "0" whose advisory is
\* emitted for another release.
C9_Witness ==
    /\ DebianReturned
    /\ \E k \in DocTriples :
          /\ KnownCVE(k)
          /\ Data.triples[k].Status = "resolved"
          /\ Data.triples[k].FixedVersion = <<"0">>
          /\ Named(VulnOf(k)) # {}

\* C10 as stated: in the Amazon fetch chain a transport failure or a non-2xx
\* status of any stage returns CouldNotDownload, a decompression or decode
\* failure (of repomd.xml too) returns CouldNotParse, and in both cases the
\* response carries no vulnerabilities and no watermark.
C10_ErrorClassification ==
    (pc = "returned" /\ updater \in {"amzn1", "amzn2"} /\ net.db = "ok") =>
        /\ net.mirror.result \in {"transport", "status"} => err = "CouldNotDownload"
        /\ net.repomd.result \in {"transport", "status"} => err = "CouldNotDownload"
        /\ net.repomd.result = "undecodable" => err = "CouldNotParse"
        /\ net.updateinfo.result \in {"transport", "status"} => err = "CouldNotDownload"
        /\ net.updateinfo.result \in {"notgzip", "undecodable"} => err = "CouldNotParse"
        /\ err \in {"CouldNotDownload", "CouldNotParse"} => resp = EmptyResponse

\* C11 as stated: when the mirror list is fetched with a 2xx status but has no
\* first line, the Amazon Update call fails and makes no further request: the
\* mirror list is the only URI it has fetched.
C11_EmptyMirrorListStops ==
    (/\ pc = "returned" /\ updater \in {"amzn1", "amzn2"}
     /\ net.mirror.result = "ok" /\ net.mirror.lines = <<>>) =>
        /\ err # "nil"
        /\ requests = <<AmznUpdaterOf(updater).MirrorListURI>>

\* C12 as stated: when the Amazon Linux 2 feed holds an advisory that passes
\* the timestamp filter and has a valid feature but whose identifier does not
\* match ^ALAS2-(.+)$, the Update call still returns a response, and every
\* passing advisory with a valid feature and a matching identifier is emitted.
C12_MismatchFailsOnlyRecord ==
    (/\ pc = "returned" /\ updater = "amzn2" /\ net.updateinfo.result = "ok"
     /\ \E i \in Passing : HasValidPackage(Feed[i]) /\ ~MatchesALAS2(Feed[i].Id)) =>
        /\ err = "nil"
        /\ \A i \in Passing :
              HasValidPackage(Feed[i]) /\ MatchesALAS2(Feed[i].Id) => Emitted(Feed[i])

====
